---------------------------- MODULE Spec2Model ----------------------------
(***************************************************************************)
(* The protocol data model of src/language_server.rs and its wire codec.   *)
(*                                                                         *)
(* The source declares the entity catalog as Rust structs and enums and    *)
(* obtains the codec from serde: #[derive(Serialize)] / #[derive(          *)
(* Deserialize)] on structs, hand-written impls on the enumerations and on *)
(* MarkedString.  The model keeps that structure:                          *)
(*   - a wire value is a JSON tree (Null, Bool, Num, Str, Arr, Obj);       *)
(*   - every struct of the source is a definition of the same name that    *)
(*     lists its derives and its fields with their serde attributes;       *)
(*   - Serialize / Deserialize compute what the derived and the hand-      *)
(*     written impls compute, driven by those declarations;                *)
(*   - a type without the impl cannot be encoded (decoded) at all: the     *)
(*     Encode (Decode) action is not enabled for it.                       *)
(***************************************************************************)
EXTENDS Integers, Sequences, FiniteSets, TLC

VARIABLES
    pc,      \* "idle" | "constructed" | "encoded" | "received" | "decoded" | "roundtrip"
    ty,      \* name of the entity type the current exchange is about
    entity,  \* the typed value handed to the codec by the analysis layer
    wire,    \* the wire value produced by encode or delivered by the transport
    result   \* the outcome of decode: Ok(value) or Err(kind, what)

vars == <<pc, ty, entity, wire, result>>

---------------------------------------------------------------------------
(* Bounds of the model.                                                    *)

\* u64 fields are drawn from 0..MaxU64
MaxU64 == 1
\* String fields are drawn from the first NumStrings entries of StringPool
NumStrings == 2
\* Vec fields are drawn from the sequences of length 0..MaxVec
MaxVec == 2
\* wire integers delivered to an enumeration decoder: -2..MaxWireInt, 255 and
\* 256..256+MaxWireInt
MaxWireInt == 6

StringPool == <<"", ".", "rust", "fn f() {}", "x">>
Strings == {StringPool[i] : i \in 1..NumStrings}

---------------------------------------------------------------------------
(* Wire values: the untyped tree of serde_json::Value.                     *)

Null == [t |-> "null"]
Bool(b) == [t |-> "bool", b |-> b]
Num(n) == [t |-> "num", n |-> n]
Str(s) == [t |-> "str", s |-> s]
Arr(a) == [t |-> "arr", a |-> a]
Obj(m) == [t |-> "obj", m |-> m]

EmptyMap == [k \in {} |-> Null]

\* Option<T>: None is the empty sequence, Some(v) the one-element sequence
None == <<>>
Some(v) == <<v>>
IsNone(o) == Len(o) = 0

\* Result<T, D::Error>
Ok(v) == [ok |-> TRUE, v |-> v]
Err(kind, what) == [ok |-> FALSE, err |-> kind, what |-> what]

---------------------------------------------------------------------------
(* Type and field descriptors.                                             *)

TU64 == <<"u64">>
TString == <<"String">>
TBool == <<"bool">>
TUnit == <<"unit">>
TValue == <<"Value">>
TOption(T) == <<"Option", T>>
TVec(T) == <<"Vec", T>>
THashMap(T) == <<"HashMap", T>>
TStruct(name) == <<"struct", name>>
TEnum(name) == <<"enum", name>>
TMarkedString == <<"MarkedString">>

\* A struct field: its Rust name, the #[serde(rename=...)] attribute ("" when
\* the field has none), its type and the #[serde(skip_serializing_if=...)]
\* attribute ("" when the field has none).
Field(name, rename, type, skip) ==
    [name |-> name, rename |-> rename, type |-> type, skip |-> skip]

\* serde's field name on the wire: the rename when there is one, else the
\* Rust identifier itself
WireKey(f) == IF f.rename = "" THEN f.name ELSE f.rename

Struct(derive, fields) == [derive |-> derive, fields |-> fields]

\* the #[derive(...)] lists that occur in the source
De == {"Deserialize"}
Ser == {"Serialize"}
DeSer == {"Deserialize", "Serialize"}

---------------------------------------------------------------------------
(* The entity catalog, in source order.                                    *)

CancelParams ==
    Struct(De, << Field("id", "", TString, "") >>)

DidChangeTextDocumentParams ==
    Struct(De, << Field("text_document", "textDocument",
                       TStruct("VersionedTextDocumentIdentifier"), ""),
                 Field("content_changes", "contentChanges",
                       TVec(TStruct("TextDocumentContentChangeEvent")), "") >>)

TextDocumentIdentifier ==
    Struct(De, << Field("uri", "", TString, "") >>)

VersionedTextDocumentIdentifier ==
    Struct(De, << Field("uri", "", TString, ""),
                 Field("version", "", TU64, "") >>)

TextDocumentItem ==
    Struct(De, << Field("uri", "", TString, ""),
                 Field("language_id", "languageId", TString, ""),
                 Field("version", "", TU64, ""),
                 Field("text", "", TString, "") >>)

DidOpenTextDocumentParams ==
    Struct(De, << Field("text_document", "textDocument",
                       TStruct("TextDocumentItem"), "") >>)

\* (mutation of TextDocumentContentChangeEvent: range is not optional)
TextDocumentContentChangeEvent_RangeRequired ==
    Struct(De, << Field("range", "", TStruct("Range"), ""),
                 Field("range_length", "rangeLength", TOption(TU64), ""),
                 Field("text", "", TString, "") >>)

TextDocumentContentChangeEvent ==
    Struct(De, << Field("range", "", TOption(TStruct("Range")), ""),
                 Field("range_length", "rangeLength", TOption(TU64), ""),
                 Field("text", "", TString, "") >>)

DidCloseTextDocumentParams ==
    Struct(De, << Field("text_document", "textDocument",
                       TStruct("TextDocumentIdentifier"), "") >>)

DidSaveTextDocumentParams ==
    Struct(De, << Field("text_document", "textDocument",
                       TStruct("TextDocumentIdentifier"), "") >>)

DidChangeWatchedFilesParams ==
    Struct(De, << Field("changes", "", TVec(TStruct("FileEvent")), "") >>)

FileEvent ==
    Struct(De, << Field("uri", "", TString, ""),
                 Field("typ", "", TEnum("FileChangeType"), "") >>)

Position ==
    Struct(DeSer, << Field("line", "", TU64, ""),
                  Field("character", "", TU64, "") >>)

Range ==
    Struct(DeSer, << Field("start", "", TStruct("Position"), ""),
                  Field("end", "", TStruct("Position"), "") >>)

Location ==
    Struct({}, << Field("uri", "", TString, ""),
                  Field("range", "", TStruct("Range"), "") >>)

TextDocumentPositionParams ==
    Struct(De, << Field("text_document", "textDocument",
                       TStruct("TextDocumentIdentifier"), ""),
                 Field("position", "", TStruct("Position"), "") >>)

InitializeParams ==
    Struct(De, << Field("process_id", "processId", TU64, ""),
                 Field("root_path", "rootPath", TOption(TString), ""),
                 Field("capabilities", "", TStruct("ClientCapabilities"), "") >>)

ClientCapabilities ==
    Struct(De, << Field("_dummy", "", TOption(TUnit), "") >>)

InitializeResult ==
    Struct(Ser, << Field("capabilities", "", TStruct("ServerCapabilities"), "") >>)

InitializeError ==
    Struct(Ser, << Field("retry", "", TBool, "") >>)

\* (mutation of ServerCapabilities: rename_provider declared without
\* skip_serializing_if)
ServerCapabilities_RenameNotSkipped ==
    Struct(Ser, <<
        Field("text_document_sync", "textDocumentSync",
              TOption(TEnum("TextDocumentSyncKind")), "Option::is_none"),
        Field("hover_provider", "hoverProvider",
              TOption(TBool), "Option::is_none"),
        Field("completion_provider", "completionProvider",
              TOption(TStruct("CompletionOptions")), "Option::is_none"),
        Field("signature_help_provider", "signatureHelpProvider",
              TOption(TStruct("SignatureHelpOptions")), "Option::is_none"),
        Field("definition_provider", "definitionProvider",
              TOption(TBool), "Option::is_none"),
        Field("references_provider", "referencesProvider",
              TOption(TBool), "Option::is_none"),
        Field("document_highlight_provider", "documentHighlightProvider",
              TOption(TBool), "Option::is_none"),
        Field("document_symbol_provider", "documentSymbolProvider",
              TOption(TBool), "Option::is_none"),
        Field("workspace_symbol_provider", "workspaceSymbolProvider",
              TOption(TBool), "Option::is_none"),
        Field("code_action_provider", "codeActionProvider",
              TOption(TBool), "Option::is_none"),
        Field("code_lens_provider", "codeLensProvider",
              TOption(TStruct("CodeLensOptions")), "Option::is_none"),
        Field("document_formatting_provider", "documentFormattingProvider",
              TOption(TBool), "Option::is_none"),
        Field("document_range_formatting_provider",
              "documentRangeFormattingProvider",
              TOption(TBool), "Option::is_none"),
        Field("document_on_type_formatting_provider",
              "documentOnTypeFormattingProvider",
              TOption(TStruct("DocumentOnTypeFormattingOptions")),
              "Option::is_none"),
        Field("rename_provider", "renameProvider", TOption(TBool), "") >>)

ServerCapabilities ==
    Struct(Ser, <<
        Field("text_document_sync", "textDocumentSync",
              TOption(TEnum("TextDocumentSyncKind")), "Option::is_none"),
        Field("hover_provider", "hoverProvider",
              TOption(TBool), "Option::is_none"),
        Field("completion_provider", "completionProvider",
              TOption(TStruct("CompletionOptions")), "Option::is_none"),
        Field("signature_help_provider", "signatureHelpProvider",
              TOption(TStruct("SignatureHelpOptions")), "Option::is_none"),
        Field("definition_provider", "definitionProvider",
              TOption(TBool), "Option::is_none"),
        Field("references_provider", "referencesProvider",
              TOption(TBool), "Option::is_none"),
        Field("document_highlight_provider", "documentHighlightProvider",
              TOption(TBool), "Option::is_none"),
        Field("document_symbol_provider", "documentSymbolProvider",
              TOption(TBool), "Option::is_none"),
        Field("workspace_symbol_provider", "workspaceSymbolProvider",
              TOption(TBool), "Option::is_none"),
        Field("code_action_provider", "codeActionProvider",
              TOption(TBool), "Option::is_none"),
        Field("code_lens_provider", "codeLensProvider",
              TOption(TStruct("CodeLensOptions")), "Option::is_none"),
        Field("document_formatting_provider", "documentFormattingProvider",
              TOption(TBool), "Option::is_none"),
        Field("document_range_formatting_provider",
              "documentRangeFormattingProvider",
              TOption(TBool), "Option::is_none"),
        Field("document_on_type_formatting_provider",
              "documentOnTypeFormattingProvider",
              TOption(TStruct("DocumentOnTypeFormattingOptions")),
              "Option::is_none"),
        Field("rename_provider", "renameProvider",
              TOption(TBool), "Option::is_none") >>)

CompletionOptions ==
    Struct(Ser, << Field("resolve_provider", "resolveProvider",
                       TOption(TBool), "Option::is_none"),
                 Field("trigger_characters", "triggerCharacters",
                       TVec(TString), "") >>)

SignatureHelpOptions ==
    Struct(Ser, << Field("trigger_characters", "triggerCharacters",
                       TVec(TString), "Vec::is_empty") >>)

CodeLensOptions ==
    Struct(Ser, << Field("resolve_provider", "resolveProvider",
                       TOption(TBool), "") >>)

DocumentOnTypeFormattingOptions ==
    Struct(Ser, << Field("first_trigger_character", "firstTriggerCharacter",
                       TString, ""),
                 Field("more_trigger_character", "moreTriggerCharacter",
                       TVec(TString), "Vec::is_empty") >>)

TextEdit ==
    Struct(Ser, << Field("range", "", TStruct("Range"), ""),
                 Field("new_text", "newText", TString, "") >>)

WorkspaceEdit ==
    Struct(Ser, << Field("changes", "", THashMap(TVec(TStruct("TextEdit"))), "") >>)

CompletionList ==
    Struct(Ser, << Field("is_incomplete", "isIncomplete", TBool, ""),
                 Field("items", "", TVec(TStruct("CompletionItem")), "") >>)

CompletionItem ==
    Struct(Ser, <<
        Field("label", "", TString, ""),
        Field("kind", "", TOption(TEnum("CompletionItemKind")), "Option::is_none"),
        Field("detail", "", TOption(TString), "Option::is_none"),
        Field("documentation", "", TOption(TString), "Option::is_none"),
        Field("sort_text", "sortText", TOption(TString), "Option::is_none"),
        Field("filter_text", "filterText", TOption(TString), "Option::is_none"),
        Field("insert_text", "insertText", TOption(TString), "Option::is_none"),
        Field("text_edit", "textEdit", TOption(TStruct("TextEdit")),
              "Option::is_none"),
        Field("data", "", TOption(TValue), "Option::is_none") >>)

Hover ==
    Struct(Ser, << Field("contents", "", TVec(TMarkedString), ""),
                 Field("range", "", TOption(TStruct("Range")), "") >>)

SignatureHelp ==
    Struct(Ser, << Field("signatures", "", TVec(TStruct("SignatureInformation")), ""),
                 Field("active_signature", "activeSignature", TOption(TU64), ""),
                 Field("active_parameter", "activeParameter", TOption(TU64), "") >>)

\* (mutation of SignatureInformation: parameters declared without
\* skip_serializing_if)
SignatureInformation_ParametersNotSkipped ==
    Struct(Ser, << Field("label", "", TString, ""),
                   Field("documentation", "", TString, ""),
                   Field("parameters", "", TVec(TStruct("ParameterInformation")),
                         "") >>)

SignatureInformation ==
    Struct(Ser, << Field("label", "", TString, ""),
                 Field("documentation", "", TString, ""),
                 Field("parameters", "", TVec(TStruct("ParameterInformation")),
                       "Vec::is_empty") >>)

ParameterInformation ==
    Struct(Ser, << Field("label", "", TString, ""),
                 Field("documentation", "", TString, "String::is_empty") >>)

ReferenceParams ==
    Struct(De, << Field("text_document", "textDocument",
                       TStruct("TextDocumentIdentifier"), ""),
                 Field("position", "", TStruct("Position"), ""),
                 Field("context", "", TStruct("ReferenceContext"), "") >>)

ReferenceContext ==
    Struct(De, << Field("include_declaration", "includeDeclaration", TBool, "") >>)

DocumentHighlight ==
    Struct(Ser, << Field("range", "", TStruct("Range"), ""),
                 Field("kind", "", TOption(TEnum("DocumentHighlightKind")), "") >>)

DocumentSymbolParams ==
    Struct(De, << Field("text_document", "textDocument",
                       TStruct("TextDocumentIdentifier"), "") >>)

SymbolInformation ==
    Struct({}, << Field("name", "", TString, ""),
                  Field("kind", "", TEnum("SymbolKind"), ""),
                  Field("location", "", TStruct("Location"), ""),
                  Field("container_name", "containerName", TString, "") >>)

WorkspaceSymbolParams ==
    Struct(De, << Field("query", "", TString, "") >>)

CodeActionParams ==
    Struct(De, << Field("text_document", "", TStruct("TextDocumentIdentifier"), ""),
                 Field("range", "", TStruct("Range"), ""),
                 Field("context", "", TStruct("CodeActionContext"), "") >>)

CodeActionContext ==
    Struct(De, << Field("diagnostics", "", TVec(TStruct("Diagnostic")), "") >>)

CodeLensParams ==
    Struct(De, << Field("text_document", "textDocument",
                       TStruct("TextDocumentIdentifier"), "") >>)

CodeLens ==
    Struct(Ser, << Field("range", "", TStruct("Range"), ""),
                 Field("command", "", TOption(TStruct("Command")), ""),
                 Field("data", "", TOption(TValue), "") >>)

RenameParams ==
    Struct(De, << Field("text_document", "textDocument",
                       TStruct("TextDocumentIdentifier"), ""),
                 Field("position", "", TStruct("Position"), ""),
                 Field("new_name", "newName", TString, "") >>)

ShowMessageParams ==
    Struct(Ser, << Field("typ", "type", TEnum("MessageType"), ""),
                 Field("message", "", TString, "") >>)

ShowMessageRequestParams ==
    Struct(Ser, << Field("typ", "type", TEnum("MessageType"), ""),
                 Field("message", "", TString, ""),
                 Field("actions", "", TVec(TStruct("MessageActionItem")),
                       "Vec::is_empty") >>)

MessageActionItem ==
    Struct(Ser, << Field("title", "", TString, "") >>)

LogMessageParams ==
    Struct(Ser, << Field("typ", "type", TEnum("MessageType"), ""),
                 Field("message", "", TString, "") >>)

DidChangeConfigurationParams ==
    Struct(Ser, << Field("settings", "", TValue, "") >>)

PublishDiagnosticsParams ==
    Struct(Ser, << Field("uri", "", TString, ""),
                 Field("diagnostics", "", TVec(TStruct("Diagnostic")), "") >>)

Diagnostic ==
    Struct(DeSer, << Field("range", "", TStruct("Range"), ""),
                  Field("severity", "", TOption(TEnum("DiagnosticSeverity")), ""),
                  Field("code", "", TString, ""),
                  Field("source", "", TOption(TString), ""),
                  Field("message", "", TString, "") >>)

Command ==
    Struct(Ser, << Field("title", "", TString, ""),
                 Field("command", "", TString, ""),
                 Field("arguments", "", TVec(TValue), "Vec::is_empty") >>)

---------------------------------------------------------------------------
(* The enumerations: each variant with its explicit discriminant, and the *)
(* serde impls written for the enumeration.                                *)

Enum(impls, discriminant) == [derive |-> impls, discriminant |-> discriminant]

FileChangeType ==
    Enum(De, [Created |-> 1, Changed |-> 2, Deleted |-> 3])

TextDocumentSyncKind ==
    Enum(Ser, [None |-> 0, Full |-> 1, Incremental |-> 2])

CompletionItemKind ==
    Enum(Ser, [Text |-> 1, Method |-> 2, Function |-> 3, Constructor |-> 4,
               Field |-> 5, Variable |-> 6, Class |-> 7, Interface |-> 8,
               Module |-> 9, Property |-> 10, Unit |-> 11, Value |-> 12,
               Enum |-> 13, Keyword |-> 14, Snippet |-> 15, Color |-> 16,
               File |-> 17, Reference |-> 18])

DocumentHighlightKind ==
    Enum(Ser, [Text |-> 1, Read |-> 2, Write |-> 3])

SymbolKind ==
    Enum(Ser, [File |-> 1, Module |-> 2, Namespace |-> 3, Package |-> 4,
               Class |-> 5, Method |-> 6, Property |-> 7, Field |-> 8,
               Constructor |-> 9, Enum |-> 10, Interface |-> 11,
               Function |-> 12, Variable |-> 13, Constant |-> 14,
               String |-> 15, Number |-> 16, Boolean |-> 17, Array |-> 18])

MessageType ==
    Enum(Ser, [Error |-> 1, Warning |-> 2, Info |-> 3, Log |-> 4])

DiagnosticSeverity ==
    Enum(DeSer, [Error |-> 1, Warning |-> 2, Information |-> 3, Hint |-> 4])

\* MarkedString: String(String) | LanguageString { language, value }
MarkedString_String(s) == [variant |-> "String", f0 |-> s]
MarkedString_LanguageString(language, value) ==
    [variant |-> "LanguageString", language |-> language, value |-> value]

\* the struct that impl Serialize for MarkedString declares for the
\* LanguageString arm
Variant ==
    Struct(Ser, << Field("language", "", TString, ""),
                   Field("value", "", TString, "") >>)

\* impl Serialize for MarkedString is the only serde impl of MarkedString
MarkedString == [derive |-> Ser]

---------------------------------------------------------------------------
(* Lookup by type name.                                                    *)

StructTable == [
    CancelParams |-> CancelParams,
    DidChangeTextDocumentParams |-> DidChangeTextDocumentParams,
    TextDocumentIdentifier |-> TextDocumentIdentifier,
    VersionedTextDocumentIdentifier |-> VersionedTextDocumentIdentifier,
    TextDocumentItem |-> TextDocumentItem,
    DidOpenTextDocumentParams |-> DidOpenTextDocumentParams,
    TextDocumentContentChangeEvent |-> TextDocumentContentChangeEvent,
    DidCloseTextDocumentParams |-> DidCloseTextDocumentParams,
    DidSaveTextDocumentParams |-> DidSaveTextDocumentParams,
    DidChangeWatchedFilesParams |-> DidChangeWatchedFilesParams,
    FileEvent |-> FileEvent,
    Position |-> Position,
    Range |-> Range,
    Location |-> Location,
    TextDocumentPositionParams |-> TextDocumentPositionParams,
    InitializeParams |-> InitializeParams,
    ClientCapabilities |-> ClientCapabilities,
    InitializeResult |-> InitializeResult,
    InitializeError |-> InitializeError,
    ServerCapabilities |-> ServerCapabilities,
    CompletionOptions |-> CompletionOptions,
    SignatureHelpOptions |-> SignatureHelpOptions,
    CodeLensOptions |-> CodeLensOptions,
    DocumentOnTypeFormattingOptions |-> DocumentOnTypeFormattingOptions,
    TextEdit |-> TextEdit,
    WorkspaceEdit |-> WorkspaceEdit,
    CompletionList |-> CompletionList,
    CompletionItem |-> CompletionItem,
    Hover |-> Hover,
    SignatureHelp |-> SignatureHelp,
    SignatureInformation |-> SignatureInformation,
    ParameterInformation |-> ParameterInformation,
    ReferenceParams |-> ReferenceParams,
    ReferenceContext |-> ReferenceContext,
    DocumentHighlight |-> DocumentHighlight,
    DocumentSymbolParams |-> DocumentSymbolParams,
    SymbolInformation |-> SymbolInformation,
    WorkspaceSymbolParams |-> WorkspaceSymbolParams,
    CodeActionParams |-> CodeActionParams,
    CodeActionContext |-> CodeActionContext,
    CodeLensParams |-> CodeLensParams,
    CodeLens |-> CodeLens,
    RenameParams |-> RenameParams,
    ShowMessageParams |-> ShowMessageParams,
    ShowMessageRequestParams |-> ShowMessageRequestParams,
    MessageActionItem |-> MessageActionItem,
    LogMessageParams |-> LogMessageParams,
    DidChangeConfigurationParams |-> DidChangeConfigurationParams,
    PublishDiagnosticsParams |-> PublishDiagnosticsParams,
    Diagnostic |-> Diagnostic,
    Command |-> Command,
    Variant |-> Variant ]

EnumTable == [
    FileChangeType |-> FileChangeType,
    TextDocumentSyncKind |-> TextDocumentSyncKind,
    CompletionItemKind |-> CompletionItemKind,
    DocumentHighlightKind |-> DocumentHighlightKind,
    SymbolKind |-> SymbolKind,
    MessageType |-> MessageType,
    DiagnosticSeverity |-> DiagnosticSeverity ]

\* the public structs (Variant is local to MarkedString's serializer)
StructNames == (DOMAIN StructTable) \ {"Variant"}
EnumNames == DOMAIN EnumTable
TypeNames == StructNames \cup EnumNames \cup {"MarkedString"}

\* the type descriptor of a named type
TypeOf(name) ==
    IF name \in DOMAIN StructTable THEN TStruct(name)
    ELSE IF name \in EnumNames THEN TEnum(name)
    ELSE TMarkedString

\* the serde impls a named type has
ImplsOf(name) ==
    IF name \in DOMAIN StructTable THEN StructTable[name].derive
    ELSE IF name \in EnumNames THEN EnumTable[name].derive
    ELSE MarkedString.derive

HasSerialize(name) == "Serialize" \in ImplsOf(name)
HasDeserialize(name) == "Deserialize" \in ImplsOf(name)

---------------------------------------------------------------------------
(* Serialize.                                                              *)

\* #[serde(skip_serializing_if="...")]: the predicate applied to the field
SkipSerializing(f, v) ==
    CASE f.skip = "Option::is_none" -> IsNone(v)
      [] f.skip = "Vec::is_empty" -> Len(v) = 0
      [] f.skip = "String::is_empty" -> v = ""
      [] OTHER -> FALSE

\* (mutation of Enum_serialize: the position of the variant in the
\* declaration instead of its discriminant)
Enum_serialize_Position(name, v) ==
    LET disc == EnumTable[name].discriminant
    IN  Num(Cardinality({u \in DOMAIN disc : disc[u] < disc[v]}))

\* serializer.serialize_u8(*self as u8)
Enum_serialize(name, v) == Num(EnumTable[name].discriminant[v] % 256)

RECURSIVE Serialize(_, _), SerializeFields(_, _, _), MarkedString_serialize(_)

\* the body of a derived Serialize: one map entry per field that is not
\* skipped, under the field's wire key (a later entry replaces an earlier one
\* of the same key)
SerializeFields(fs, x, i) ==
    IF i > Len(fs) THEN EmptyMap
    ELSE LET f == fs[i]
             rest == SerializeFields(fs, x, i + 1)
         IN  IF SkipSerializing(f, x[f.name]) THEN rest
             ELSE rest @@ (WireKey(f) :> Serialize(f.type, x[f.name]))

\* (mutation of MarkedString_serialize: the String arm wrapped in an object)
MarkedString_serialize_StringAsObject(x) ==
    IF x.variant = "String" THEN Obj([value |-> Str(x.f0)])
    ELSE Serialize(TStruct("Variant"),
                   [language |-> x.language, value |-> x.value])

\* (mutation of MarkedString_serialize: the LanguageString arm emits its value
\* alone)
MarkedString_serialize_ValueOnly(x) ==
    IF x.variant = "String" THEN Str(x.f0) ELSE Str(x.value)

MarkedString_serialize(x) ==
    IF x.variant = "String" THEN Str(x.f0)
    ELSE Serialize(TStruct("Variant"),
                   [language |-> x.language, value |-> x.value])

Serialize(T, x) ==
    CASE T[1] = "u64" -> Num(x)
      [] T[1] = "String" -> Str(x)
      [] T[1] = "bool" -> Bool(x)
      [] T[1] = "unit" -> Null
      [] T[1] = "Value" -> x
      [] T[1] = "Option" -> IF IsNone(x) THEN Null ELSE Serialize(T[2], x[1])
      [] T[1] = "Vec" -> Arr([i \in 1..Len(x) |-> Serialize(T[2], x[i])])
      [] T[1] = "HashMap" -> Obj([k \in DOMAIN x |-> Serialize(T[2], x[k])])
      [] T[1] = "struct" -> Obj(SerializeFields(StructTable[T[2]].fields, x, 1))
      [] T[1] = "enum" -> Enum_serialize(T[2], x)
      [] T[1] = "MarkedString" -> MarkedString_serialize(x)

---------------------------------------------------------------------------
(* Deserialize.                                                            *)

\* (mutation of U8_deserialize: the wire integer is truncated to its low byte)
U8_deserialize_Wrapping(w) ==
    IF w.t = "num" THEN Ok(w.n % 256)
    ELSE Err("invalid_type", "u8")

\* u8::deserialize: a wire integer that fits u8, no wrap-around
U8_deserialize(w) ==
    IF w.t = "num" /\ w.n >= 0 /\ w.n <= 255 THEN Ok(w.n)
    ELSE Err("invalid_type", "u8")

\* u64::deserialize: a non-negative wire integer
U64_deserialize(w) ==
    IF w.t = "num" /\ w.n >= 0 THEN Ok(w.n)
    ELSE Err("invalid_type", "u64")

\* (mutation of String_deserialize: a wire value that is no string is read as
\* the empty string)
String_deserialize_Lenient(w) ==
    IF w.t = "str" THEN Ok(w.s) ELSE Ok("")

String_deserialize(w) ==
    IF w.t = "str" THEN Ok(w.s) ELSE Err("invalid_type", "String")

Bool_deserialize(w) ==
    IF w.t = "bool" THEN Ok(w.b) ELSE Err("invalid_type", "bool")

Unit_deserialize(w) ==
    IF w.t = "null" THEN Ok("()") ELSE Err("invalid_type", "unit")

\* (mutation of FileChangeType_deserialize: an unknown code falls back to the
\* first variant)
FileChangeType_deserialize_Fallback(w) ==
    LET r == U8_deserialize(w)
    IN  IF ~r.ok THEN r
        ELSE CASE r.v = 2 -> Ok("Changed")
               [] r.v = 3 -> Ok("Deleted")
               [] OTHER -> Ok("Created")

FileChangeType_deserialize(w) ==
    LET r == U8_deserialize(w)
    IN  IF ~r.ok THEN r
        ELSE CASE r.v = 1 -> Ok("Created")
               [] r.v = 2 -> Ok("Changed")
               [] r.v = 3 -> Ok("Deleted")
               [] OTHER -> Err("invalid_value",
                    "Expected a value of 1, 2 or 3 to deserialze to FileChangeType")

\* (mutation of DiagnosticSeverity_deserialize: the table read zero-based)
DiagnosticSeverity_deserialize_ZeroBased(w) ==
    LET r == U8_deserialize(w)
    IN  IF ~r.ok THEN r
        ELSE CASE r.v = 0 -> Ok("Error")
               [] r.v = 1 -> Ok("Warning")
               [] r.v = 2 -> Ok("Information")
               [] r.v = 3 -> Ok("Hint")
               [] OTHER -> Err("invalid_value",
                    "Expected a value of 1, 2, 3 or 4 to deserialze to DiagnosticSeverity")

DiagnosticSeverity_deserialize(w) ==
    LET r == U8_deserialize(w)
    IN  IF ~r.ok THEN r
        ELSE CASE r.v = 1 -> Ok("Error")
               [] r.v = 2 -> Ok("Warning")
               [] r.v = 3 -> Ok("Information")
               [] r.v = 4 -> Ok("Hint")
               [] OTHER -> Err("invalid_value",
                    "Expected a value of 1, 2, 3 or 4 to deserialze to DiagnosticSeverity")

\* the enumerations without an impl Deserialize have no decoder
Enum_deserialize(name, w) ==
    CASE name = "FileChangeType" -> FileChangeType_deserialize(w)
      [] name = "DiagnosticSeverity" -> DiagnosticSeverity_deserialize(w)
      [] OTHER -> Err("no_impl", name)

\* a field whose key is not in the wire object: an Option field becomes None,
\* any other field is an error
MissingField(f) ==
    IF f.type[1] = "Option" THEN Ok(None)
    ELSE Err("missing_field", WireKey(f))

\* the least index at which the sequence of flags is TRUE, or 0
FirstTrue(flags) ==
    IF \E i \in DOMAIN flags : flags[i]
    THEN CHOOSE i \in DOMAIN flags :
             flags[i] /\ \A j \in DOMAIN flags : flags[j] => i <= j
    ELSE 0

RECURSIVE Deserialize(_, _)

\* (mutation of DeserializeFields: a key that is no field's wire key is an
\* error)
DeserializeFields_DenyUnknown(fs, m) ==
    LET known == {WireKey(fs[i]) : i \in 1..Len(fs)}
        present(i) == WireKey(fs[i]) \in DOMAIN m
        r == [i \in 1..Len(fs) |->
                 IF present(i) THEN Deserialize(fs[i].type, m[WireKey(fs[i])])
                 ELSE MissingField(fs[i])]
        bad == FirstTrue([i \in 1..Len(fs) |-> ~r[i].ok])
        IndexOf(n) == CHOOSE i \in 1..Len(fs) : fs[i].name = n
    IN  IF ~(DOMAIN m \subseteq known) THEN Err("unknown_field", "")
        ELSE IF bad # 0 THEN r[bad]
        ELSE Ok([n \in {fs[i].name : i \in 1..Len(fs)} |-> r[IndexOf(n)].v])

\* the body of a derived Deserialize on a wire object m: every key of m that
\* is a field's wire key is decoded as that field, other keys are ignored,
\* and the fields whose key is absent are filled by MissingField; the first
\* failure is the result
DeserializeFields(fs, m) ==
    LET present(i) == WireKey(fs[i]) \in DOMAIN m
        r == [i \in 1..Len(fs) |->
                 IF present(i) THEN Deserialize(fs[i].type, m[WireKey(fs[i])])
                 ELSE MissingField(fs[i])]
        badValue == FirstTrue([i \in 1..Len(fs) |-> present(i) /\ ~r[i].ok])
        badMissing == FirstTrue([i \in 1..Len(fs) |-> ~present(i) /\ ~r[i].ok])
        IndexOf(n) == CHOOSE i \in 1..Len(fs) : fs[i].name = n
    IN  IF badValue # 0 THEN r[badValue]
        ELSE IF badMissing # 0 THEN r[badMissing]
        ELSE Ok([n \in {fs[i].name : i \in 1..Len(fs)} |-> r[IndexOf(n)].v])

Deserialize(T, w) ==
    CASE T[1] = "u64" -> U64_deserialize(w)
      [] T[1] = "String" -> String_deserialize(w)
      [] T[1] = "bool" -> Bool_deserialize(w)
      [] T[1] = "unit" -> Unit_deserialize(w)
      [] T[1] = "Value" -> Ok(w)
      [] T[1] = "Option" ->
            IF w.t = "null" THEN Ok(None)
            ELSE LET r == Deserialize(T[2], w)
                 IN  IF r.ok THEN Ok(Some(r.v)) ELSE r
      [] T[1] = "Vec" ->
            IF w.t # "arr" THEN Err("invalid_type", "Vec")
            ELSE LET r == [i \in 1..Len(w.a) |-> Deserialize(T[2], w.a[i])]
                     bad == FirstTrue([i \in 1..Len(w.a) |-> ~r[i].ok])
                 IN  IF bad # 0 THEN r[bad]
                     ELSE Ok([i \in 1..Len(w.a) |-> r[i].v])
      [] T[1] = "struct" ->
            IF w.t # "obj" THEN Err("invalid_type", T[2])
            ELSE DeserializeFields(StructTable[T[2]].fields, w.m)
      [] T[1] = "enum" -> Enum_deserialize(T[2], w)
      [] OTHER -> Err("no_impl", T[1])


---------------------------------------------------------------------------
(* The values the analysis layer can construct.  Values(T, d) are the      *)
(* values of type T whose Option and Vec nesting is at most d deep; at     *)
(* depth 0 every scalar is its default.                                    *)

\* the variant of least discriminant
FirstVariant(name) ==
    LET disc == EnumTable[name].discriminant
    IN  CHOOSE v \in DOMAIN disc : \A u \in DOMAIN disc : disc[v] <= disc[u]

OpaqueValues == {Null, Num(0), Str("x")}

RECURSIVE Values(_, _), FieldValues(_, _, _)

FieldValues(fs, i, d) ==
    IF i > Len(fs) THEN {EmptyMap}
    ELSE {rest @@ (fs[i].name :> v) :
             v \in Values(fs[i].type, d), rest \in FieldValues(fs, i + 1, d)}

Values(T, d) ==
    CASE T[1] = "u64" -> IF d = 0 THEN {0} ELSE 0..MaxU64
      [] T[1] = "String" -> IF d = 0 THEN {""} ELSE Strings
      [] T[1] = "bool" -> IF d = 0 THEN {FALSE} ELSE BOOLEAN
      [] T[1] = "unit" -> {"()"}
      [] T[1] = "Value" -> IF d = 0 THEN {Null} ELSE OpaqueValues
      [] T[1] = "Option" ->
            IF d = 0 THEN {None}
            ELSE {None} \cup {Some(v) : v \in Values(T[2], d - 1)}
      [] T[1] = "Vec" ->
            IF d = 0 THEN {<<>>}
            ELSE UNION {[1..n -> Values(T[2], d - 1)] : n \in 0..MaxVec}
      [] T[1] = "HashMap" ->
            IF d = 0 THEN {EmptyMap}
            ELSE {EmptyMap} \cup {("file:///a" :> v) : v \in Values(T[2], d - 1)}
      [] T[1] = "struct" -> FieldValues(StructTable[T[2]].fields, 1, d)
      [] T[1] = "enum" ->
            IF d = 0 THEN {FirstVariant(T[2])}
            ELSE DOMAIN EnumTable[T[2]].discriminant
      [] T[1] = "MarkedString" ->
            IF d = 0 THEN {MarkedString_String("")}
            ELSE {MarkedString_String(s) : s \in Strings}
                 \cup {MarkedString_LanguageString(l, v) : l, v \in Strings}

\* the nesting depth to which each type's inputs are enumerated
Level(name) ==
    CASE name \in {"InitializeResult", "ServerCapabilities"} -> 0
      [] name \in {"CompletionItem", "CompletionList", "CodeActionParams",
                   "CodeActionContext", "PublishDiagnosticsParams",
                   "DidChangeTextDocumentParams", "DidChangeWatchedFilesParams",
                   "CodeLens", "Hover", "SignatureHelp", "SymbolInformation"} -> 1
      [] OTHER -> 2

Inputs(name) == Values(TypeOf(name), Level(name))

\* Default::default() of ServerCapabilities: no feature offered
DefaultCapabilities == CHOOSE x \in Values(TStruct("ServerCapabilities"), 0) : TRUE

\* ServerCapabilities: every combination of offered and not offered features,
\* and every value of each single feature
CapabilityInputs ==
    LET fs == ServerCapabilities.fields
    IN  Values(TStruct("ServerCapabilities"), 1)
        \cup UNION {{[DefaultCapabilities EXCEPT ![fs[i].name] = v] :
                        v \in Values(fs[i].type, 2)} : i \in 1..Len(fs)}

---------------------------------------------------------------------------
(* The wire values the transport can deliver.  The peer encodes an entity  *)
(* under the protocol's keys (section 6 of the specification: camelCase    *)
(* for a multi-word field, the word itself otherwise, and `type` for the   *)
(* kind of a file event or message); it leaves an absent optional field    *)
(* out, or sends null for it.                                              *)

ProtocolKeyTable == [
    text_document |-> "textDocument",
    content_changes |-> "contentChanges",
    language_id |-> "languageId",
    range_length |-> "rangeLength",
    typ |-> "type",
    process_id |-> "processId",
    root_path |-> "rootPath",
    text_document_sync |-> "textDocumentSync",
    hover_provider |-> "hoverProvider",
    completion_provider |-> "completionProvider",
    signature_help_provider |-> "signatureHelpProvider",
    definition_provider |-> "definitionProvider",
    references_provider |-> "referencesProvider",
    document_highlight_provider |-> "documentHighlightProvider",
    document_symbol_provider |-> "documentSymbolProvider",
    workspace_symbol_provider |-> "workspaceSymbolProvider",
    code_action_provider |-> "codeActionProvider",
    code_lens_provider |-> "codeLensProvider",
    document_formatting_provider |-> "documentFormattingProvider",
    document_range_formatting_provider |-> "documentRangeFormattingProvider",
    document_on_type_formatting_provider |-> "documentOnTypeFormattingProvider",
    rename_provider |-> "renameProvider",
    resolve_provider |-> "resolveProvider",
    trigger_characters |-> "triggerCharacters",
    first_trigger_character |-> "firstTriggerCharacter",
    more_trigger_character |-> "moreTriggerCharacter",
    new_text |-> "newText",
    is_incomplete |-> "isIncomplete",
    sort_text |-> "sortText",
    filter_text |-> "filterText",
    insert_text |-> "insertText",
    text_edit |-> "textEdit",
    active_signature |-> "activeSignature",
    active_parameter |-> "activeParameter",
    include_declaration |-> "includeDeclaration",
    container_name |-> "containerName",
    new_name |-> "newName" ]

ProtocolKey(name) ==
    IF name \in DOMAIN ProtocolKeyTable THEN ProtocolKeyTable[name] ELSE name

RECURSIVE PeerEncode(_, _, _), PeerEncodeFields(_, _, _, _)

PeerEncodeFields(fs, x, i, nulls) ==
    IF i > Len(fs) THEN EmptyMap
    ELSE LET f == fs[i]
             rest == PeerEncodeFields(fs, x, i + 1, nulls)
         IN  IF f.type[1] = "Option" /\ IsNone(x[f.name]) /\ ~nulls THEN rest
             ELSE rest @@ (ProtocolKey(f.name) :> PeerEncode(f.type, x[f.name], nulls))

PeerEncode(T, x, nulls) ==
    CASE T[1] = "u64" -> Num(x)
      [] T[1] = "String" -> Str(x)
      [] T[1] = "bool" -> Bool(x)
      [] T[1] = "unit" -> Null
      [] T[1] = "Value" -> x
      [] T[1] = "Option" -> IF IsNone(x) THEN Null ELSE PeerEncode(T[2], x[1], nulls)
      [] T[1] = "Vec" -> Arr([i \in 1..Len(x) |-> PeerEncode(T[2], x[i], nulls)])
      [] T[1] = "HashMap" -> Obj([k \in DOMAIN x |-> PeerEncode(T[2], x[k], nulls)])
      [] T[1] = "struct" ->
            Obj(PeerEncodeFields(StructTable[T[2]].fields, x, 1, nulls))
      [] T[1] = "enum" -> Num(EnumTable[T[2]].discriminant[x])
      [] T[1] = "MarkedString" ->
            IF x.variant = "String" THEN Str(x.f0)
            ELSE Obj([language |-> Str(x.language), value |-> Str(x.value)])

\* wire integers: around the enumeration tables, and around 2^8
WireInts == (-2..MaxWireInt) \cup {255} \cup {256 + k : k \in 0..MaxWireInt}

ScalarWires == {Null, Bool(TRUE), Str(""), Str("x")}

\* an object over every subset of the keys language, value and extra
MarkedStringWires ==
    {Str(s) : s \in Strings}
    \cup {Obj([k \in K |-> Str(StringPool[1 + (i % NumStrings)])]) :
             K \in SUBSET {"language", "value", "extra"}, i \in 0..1}
    \cup {Obj([language |-> Str(l), value |-> Str(v)]) : l, v \in Strings}
    \cup {Null, Num(0), Bool(TRUE), Arr(<<>>), Arr(<<Str("x")>>)}

\* what a single key of a wire object can hold when the peer gets it wrong
FieldWires == {Null, Bool(TRUE), Num(-1), Num(0), Num(1), Str("x"), Obj(EmptyMap)}

\* a wire object with one key removed
DropKey(m, k) == [j \in (DOMAIN m) \ {k} |-> m[j]]

\* a wire object with one key set, added when it was not there
SetKey(m, k, v) == [j \in (DOMAIN m) \cup {k} |-> IF j = k THEN v ELSE m[j]]

\* the keys a derived Deserialize looks for
WireKeys(name) ==
    LET fs == StructTable[name].fields
    IN  {WireKey(fs[i]) : i \in 1..Len(fs)}

\* the peer's encodings of the default values of a struct, each with one key
\* dropped or holding some other value
MalformedWires(name) ==
    LET T == TStruct(name)
        seed == {PeerEncode(T, x, nulls) : x \in Values(T, 0), nulls \in BOOLEAN}
    IN  UNION {{Obj(DropKey(w.m, k)) : k \in DOMAIN w.m}
               \cup {Obj(SetKey(w.m, k, v)) :
                        k \in (DOMAIN w.m) \cup WireKeys(name), v \in FieldWires} :
               w \in seed}

\* the nesting depth to which the peer's values of each type are enumerated
WireLevel(name) ==
    CASE ~HasDeserialize(name) -> 0
      [] name = "TextDocumentContentChangeEvent" -> 2
      [] OTHER -> 1

\* the peer's encodings of the values of a struct, each also with one unknown
\* key added, and the malformed ones; a struct decoder is offered objects and
\* scalars only (how it treats a wire array is serde's business and is not
\* modelled)
StructWires(name) ==
    LET T == TStruct(name)
        base == {PeerEncode(T, x, nulls) :
                    x \in Values(T, WireLevel(name)),
                    nulls \in BOOLEAN}
    IN  base \cup {Obj(w.m @@ ("extra" :> Num(1))) : w \in base}
        \cup (IF HasDeserialize(name) THEN MalformedWires(name) ELSE {})
        \cup ScalarWires

WireInputs(name) ==
    IF name \in EnumNames THEN {Num(n) : n \in WireInts} \cup ScalarWires
    ELSE IF name = "MarkedString" THEN MarkedStringWires
    ELSE StructWires(name)

---------------------------------------------------------------------------
(* The codec as a state machine: the analysis layer constructs an entity   *)
(* and has it encoded; the transport delivers a wire value and has it      *)
(* decoded as a type; an encoded value can be decoded again.               *)

Nothing == <<>>

Init ==
    /\ pc = "idle"
    /\ ty = ""
    /\ entity = Nothing
    /\ wire = Null
    /\ result = Nothing

\* plain construction of an entity
Construct ==
    /\ pc = "idle"
    /\ \E name \in TypeNames : \E x \in Inputs(name) :
          /\ ty' = name
          /\ entity' = x
    /\ pc' = "constructed"
    /\ UNCHANGED <<wire, result>>

ConstructCapabilities ==
    /\ pc = "idle"
    /\ \E x \in CapabilityInputs :
          /\ ty' = "ServerCapabilities"
          /\ entity' = x
    /\ pc' = "constructed"
    /\ UNCHANGED <<wire, result>>

\* encode: exists only for a type that implements Serialize
Encode ==
    /\ pc = "constructed"
    /\ HasSerialize(ty)
    /\ wire' = Serialize(TypeOf(ty), entity)
    /\ pc' = "encoded"
    /\ UNCHANGED <<ty, entity, result>>

\* the transport hands over a wire value to be decoded as a type
Receive ==
    /\ pc = "idle"
    /\ \E name \in TypeNames : \E w \in WireInputs(name) :
          /\ ty' = name
          /\ wire' = w
    /\ pc' = "received"
    /\ UNCHANGED <<entity, result>>

\* decode: exists only for a type that implements Deserialize
Decode ==
    /\ pc \in {"received", "encoded"}
    /\ HasDeserialize(ty)
    /\ result' = Deserialize(TypeOf(ty), wire)
    /\ pc' = IF pc = "encoded" THEN "roundtrip" ELSE "decoded"
    /\ UNCHANGED <<ty, entity, wire>>

Next == Construct \/ Encode \/ Receive \/ Decode

Spec == Init /\ [][Next]_vars

NextCapabilities == ConstructCapabilities \/ Encode

SpecCapabilities == Init /\ [][NextCapabilities]_vars

TypeOK ==
    /\ pc \in {"idle", "constructed", "encoded", "received", "decoded", "roundtrip"}
    /\ ty \in TypeNames \cup {""}

---------------------------------------------------------------------------
(* Claims.                                                                 *)

\* the types of the catalog that implement both Serialize and Deserialize
BothWays == {"Position", "Range", "Diagnostic", "DiagnosticSeverity"}

SeverityTable == <<"Error", "Warning", "Information", "Hint">>
FileChangeTable == <<"Created", "Changed", "Deleted">>

DecodeTable(name) ==
    IF name = "DiagnosticSeverity" THEN SeverityTable ELSE FileChangeTable

\* C2: decoding DiagnosticSeverity accepts exactly the integers 1..4 and
\* decoding FileChangeType exactly 1..3, each yielding the variant of the
\* table; any other integer fails with an error and yields no variant.
C2_StrictWhitelist ==
    pc = "decoded" /\ ty \in {"DiagnosticSeverity", "FileChangeType"}
                   /\ wire.t = "num" =>
        LET table == DecodeTable(ty)
        IN  IF wire.n \in 1..Len(table)
            THEN result = Ok(table[wire.n])
            ELSE ~result.ok /\ "v" \notin DOMAIN result

C2_Witness ==
    /\ pc = "decoded"
    /\ ty = "DiagnosticSeverity"
    /\ wire = Num(5)
    /\ ~result.ok

\* the variant -> integer tables of section 6; the two 18-variant tables are
\* given by their first and last entry and their being contiguous
SpecEnumTable == [
    TextDocumentSyncKind |-> [None |-> 0, Full |-> 1, Incremental |-> 2],
    FileChangeType |-> [Created |-> 1, Changed |-> 2, Deleted |-> 3],
    DocumentHighlightKind |-> [Text |-> 1, Read |-> 2, Write |-> 3],
    DiagnosticSeverity |-> [Error |-> 1, Warning |-> 2, Information |-> 3, Hint |-> 4],
    MessageType |-> [Error |-> 1, Warning |-> 2, Info |-> 3, Log |-> 4],
    CompletionItemKind |-> [Text |-> 1, Reference |-> 18],
    SymbolKind |-> [File |-> 1, Array |-> 18] ]

\* v encodes to w as section 6 demands
EncodesPerTable(name, v, w) ==
    /\ w.t = "num"
    /\ v \in DOMAIN SpecEnumTable[name] => w.n = SpecEnumTable[name][v]
    /\ name \in {"CompletionItemKind", "SymbolKind"} => w.n \in 1..18

EncodableEnums == EnumNames \ {"FileChangeType"}
DecodableEnums == {"FileChangeType", "DiagnosticSeverity"}

C4_CompletionOptionsOmission ==
    pc = "encoded" /\ ty = "CompletionOptions"
                   /\ IsNone(entity.resolve_provider) =>
        /\ entity.trigger_characters = <<>> =>
              /\ wire.t = "obj"
              /\ "resolveProvider" \notin DOMAIN wire.m
              /\ "triggerCharacters" \notin DOMAIN wire.m
        /\ entity.trigger_characters = <<".">> =>
              wire = Obj([triggerCharacters |-> Arr(<<Str(".")>>)])

\* the encoding of a sequence of strings
StringsWire(ss) == Arr([i \in 1..Len(ss) |-> Str(ss[i])])

\* the encoding of a sequence of message action items
ActionsWire(as) == Arr([i \in 1..Len(as) |-> Obj([title |-> Str(as[i].title)])])

\* the encoding of a sequence of parameter informations
ParametersWire(ps) ==
    Arr([i \in 1..Len(ps) |->
            IF ps[i].documentation = ""
            THEN Obj([label |-> Str(ps[i].label)])
            ELSE Obj([label |-> Str(ps[i].label),
                      documentation |-> Str(ps[i].documentation)])])

\* the key is in the encoded object exactly when the field is not empty, and
\* then carries the expected value
KeyIffNonEmpty(key, empty, expected) ==
    /\ wire.t = "obj"
    /\ key \in DOMAIN wire.m <=> ~empty
    /\ ~empty => wire.m[key] = expected

\* C5: each omit-if-empty field (SignatureHelpOptions.triggerCharacters,
\* DocumentOnTypeFormattingOptions.moreTriggerCharacter,
\* ShowMessageRequestParams.actions, SignatureInformation.parameters,
\* ParameterInformation.documentation) has its key in the encoded object if
\* and only if its value is not empty, and the key then carries the whole
\* value in order.
C5_OmitIfEmpty ==
    pc = "encoded" =>
        /\ ty = "SignatureHelpOptions" =>
              KeyIffNonEmpty("triggerCharacters",
                             entity.trigger_characters = <<>>,
                             StringsWire(entity.trigger_characters))
        /\ ty = "DocumentOnTypeFormattingOptions" =>
              KeyIffNonEmpty("moreTriggerCharacter",
                             entity.more_trigger_character = <<>>,
                             StringsWire(entity.more_trigger_character))
        /\ ty = "ShowMessageRequestParams" =>
              KeyIffNonEmpty("actions",
                             entity.actions = <<>>,
                             ActionsWire(entity.actions))
        /\ ty = "SignatureInformation" =>
              KeyIffNonEmpty("parameters",
                             entity.parameters = <<>>,
                             ParametersWire(entity.parameters))
        /\ ty = "ParameterInformation" =>
              KeyIffNonEmpty("documentation",
                             entity.documentation = "",
                             Str(entity.documentation))

C5_Witness ==
    /\ pc = "encoded"
    /\ ty = "SignatureInformation"
    /\ Len(entity.parameters) = 2
    /\ entity.parameters[1] # entity.parameters[2]
    /\ entity.parameters[1].documentation = ""
    /\ wire.m["parameters"] = ParametersWire(entity.parameters)

\* C6: an absent optional field has no key at all in the encoded object (it
\* is never a key with a null value), for every optional field of every
\* entity.
C6_AbsentOptionalHasNoKey ==
    pc = "encoded" /\ ty \in StructNames =>
        LET fs == StructTable[ty].fields
        IN  \A i \in 1..Len(fs) :
                fs[i].type[1] = "Option" /\ IsNone(entity[fs[i].name]) =>
                    ProtocolKey(fs[i].name) \notin DOMAIN wire.m

\* C7: for every ServerCapabilities value and each of its 15 feature fields
\* the encoded object has the field's wire key if and only if the field is
\* set; the default ServerCapabilities encodes to the empty object, and no
\* key carries null.
C7_CapabilityKeyIffPresent ==
    pc = "encoded" /\ ty = "ServerCapabilities" =>
        /\ wire.t = "obj"
        /\ Cardinality(DOMAIN entity) = 15
        /\ \A n \in DOMAIN entity :
              ProtocolKey(n) \in DOMAIN wire.m <=> ~IsNone(entity[n])
        /\ DOMAIN wire.m \subseteq {ProtocolKey(n) : n \in DOMAIN entity}
        /\ \A k \in DOMAIN wire.m : wire.m[k] # Null
        /\ (\A n \in DOMAIN entity : IsNone(entity[n])) => wire = Obj(EmptyMap)

C7_Witness ==
    /\ pc = "encoded"
    /\ ty = "ServerCapabilities"
    /\ ~IsNone(entity.hover_provider)
    /\ IsNone(entity.rename_provider)
    /\ DOMAIN wire.m = {"hoverProvider"}

\* the wire value is the peer's encoding, under the protocol's keys, of some
\* value of the type
IsProtocolEncoding(name, w) ==
    \E x \in Values(TStruct(name), 1) : \E nulls \in BOOLEAN :
        w = PeerEncode(TStruct(name), x, nulls)

\* C8: every field is written to and read from the wire key of the protocol
\* table (camelCase for a multi-word field), distinct fields under distinct
\* keys; so an object that carries an entity under the protocol's keys
\* decodes, CodeActionParams from "textDocument" and FileEvent from "type".
C8_ProtocolKeys ==
    ty \in StructNames =>
        LET fs == StructTable[ty].fields
        IN  /\ pc = "encoded" =>
                  DOMAIN wire.m \subseteq {ProtocolKey(fs[i].name) : i \in 1..Len(fs)}
            /\ pc = "decoded" /\ IsProtocolEncoding(ty, wire) => result.ok
            /\ \A i, j \in 1..Len(fs) :
                  i # j => ProtocolKey(fs[i].name) # ProtocolKey(fs[j].name)

\* C9: the String variant of MarkedString encodes to the bare wire string of
\* its text, the LanguageString variant to an object with exactly the keys
\* language and value carrying its fields; the two never share a shape.
C9_MarkedStringShape ==
    pc = "encoded" /\ ty = "MarkedString" =>
        IF entity.variant = "String"
        THEN wire = Str(entity.f0)
        ELSE /\ wire.t = "obj"
             /\ DOMAIN wire.m = {"language", "value"}
             /\ wire.m["language"] = Str(entity.language)
             /\ wire.m["value"] = Str(entity.value)
             /\ \A y \in Inputs("MarkedString") :
                   y.variant = "String" => Serialize(TMarkedString, y).t # wire.t

C9_Witness ==
    /\ pc = "encoded"
    /\ ty = "MarkedString"
    /\ entity.variant = "LanguageString"
    /\ entity.language # entity.value
    /\ wire.t = "obj"

---------------------------------------------------------------------------
(* Decoding records.                                                       *)

RECURSIVE WellShaped(_, _)

\* a wire value has the shape of type T: a scalar of the right kind, null or
\* the inner shape for an optional, an array of shaped items, an object that
\* holds every non-optional field's key with a shaped value and no optional
\* field's key with a misshaped one, a number of the enumeration's table
WellShaped(T, w) ==
    CASE T[1] = "u64" -> w.t = "num" /\ w.n >= 0
      [] T[1] = "String" -> w.t = "str"
      [] T[1] = "bool" -> w.t = "bool"
      [] T[1] = "unit" -> w.t = "null"
      [] T[1] = "Value" -> TRUE
      [] T[1] = "Option" -> w.t = "null" \/ WellShaped(T[2], w)
      [] T[1] = "Vec" ->
            w.t = "arr" /\ \A i \in 1..Len(w.a) : WellShaped(T[2], w.a[i])
      [] T[1] = "struct" ->
            /\ w.t = "obj"
            /\ LET fs == StructTable[T[2]].fields
               IN  \A i \in 1..Len(fs) :
                      IF WireKey(fs[i]) \in DOMAIN w.m
                      THEN WellShaped(fs[i].type, w.m[WireKey(fs[i])])
                      ELSE fs[i].type[1] = "Option"
      [] T[1] = "enum" ->
            /\ w.t = "num"
            /\ \E v \in DOMAIN SpecEnumTable[T[2]] : SpecEnumTable[T[2]][v] = w.n
      [] OTHER -> FALSE

ExtraKeys == {"extra", "Line", "$schema"}

\* C12: a key that is not in the field table of a decodable struct is
\* ignored: whatever such a key holds, a wire object decodes to the entity it
\* decodes to without the key.
C12_UnknownKeysIgnored ==
    (pc = "decoded" /\ ty \in StructNames /\ wire.t = "obj") =>
        LET T == TStruct(ty)
            unknown == (ExtraKeys \cup DOMAIN wire.m) \ WireKeys(ty)
        IN  /\ \A k \in unknown \cap DOMAIN wire.m :
                  LET stripped == Deserialize(T, Obj(DropKey(wire.m, k)))
                  IN  stripped.ok => result = stripped
            /\ result.ok =>
                  \A k \in unknown \ DOMAIN wire.m : \A v \in FieldWires :
                     Deserialize(T, Obj(SetKey(wire.m, k, v))) = result

\* a Position that came with the key extra was decoded
C12_Witness ==
    /\ pc = "decoded"
    /\ ty = "Position"
    /\ wire = Obj([line |-> Num(0), character |-> Num(1), extra |-> Num(1)])
    /\ result = Ok([line |-> 0, character |-> 1])

\* C13: a content change decodes with and without range and rangeLength;
\* the decoded range is absent exactly when the wire object has no range key
\* or a null one, otherwise it is the range that was on the wire, and text is
\* the string that was on the wire.
C13_RangePresence ==
    (pc = "decoded" /\ ty = "TextDocumentContentChangeEvent" /\ wire.t = "obj") =>
        LET m == wire.m
            noRange == "range" \notin DOMAIN m \/ m.range.t = "null"
            noLength == "rangeLength" \notin DOMAIN m \/ m.rangeLength.t = "null"
            rangeOk == noRange \/ WellShaped(TStruct("Range"), m.range)
            lengthOk == noLength \/ WellShaped(TU64, m.rangeLength)
            textOk == "text" \in DOMAIN m /\ m.text.t = "str"
        IN  /\ (textOk /\ rangeOk /\ lengthOk) => result.ok
            /\ wire = Obj([text |-> Str(".")]) =>
                  result = Ok([range |-> None, range_length |-> None, text |-> "."])
            /\ result.ok =>
                  /\ IsNone(result.v.range) <=> noRange
                  /\ ~noRange =>
                        Deserialize(TStruct("Range"), m.range) = Ok(result.v.range[1])
                  /\ IsNone(result.v.range_length) <=> noLength
                  /\ result.v.text = m.text.s

\* a change with a range and no rangeLength was decoded as an edit of that
\* range
C13_Witness ==
    /\ pc = "decoded"
    /\ ty = "TextDocumentContentChangeEvent"
    /\ wire.t = "obj"
    /\ DOMAIN wire.m = {"range", "text"}
    /\ result = Ok([range |-> Some([start |-> [line |-> 0, character |-> 1],
                                      end |-> [line |-> 1, character |-> 0]]),
                     range_length |-> None,
                     text |-> "."])

---------------------------------------------------------------------------
(* Decoding enumerations: the error and the width of the number.           *)

\* C14: the error of a failed enumeration decode tells the enumeration and
\* the integer that was on the wire: the failures of one enumeration on two
\* different integers are different errors, and so are the failures of two
\* enumerations on one integer.
C14_EnumErrorCarriesRawValue ==
    (pc = "decoded" /\ ty \in DecodableEnums /\ wire.t = "num" /\ ~result.ok) =>
        /\ \A n \in WireInts \ {wire.n} :
              LET other == Deserialize(TEnum(ty), Num(n))
              IN  ~other.ok => other # result
        /\ \A name \in DecodableEnums \ {ty} :
              LET other == Deserialize(TEnum(name), wire)
              IN  ~other.ok => other # result

\* C15: the enumeration decoders read the wire number as a u8 without
\* wrap-around: a negative integer and an integer above 255 (257 and 259
\* among them, congruent to valid codes modulo 256) fail to decode; and every
\* variant's integer fits 0..255, so that encoding as a u8 emits the
\* discriminant itself.
C15_NoWrapAround ==
    /\ (pc = "decoded" /\ ty \in DecodableEnums /\ wire.t = "num"
            /\ (wire.n < 0 \/ wire.n > 255)) => ~result.ok
    /\ (pc = "encoded" /\ ty \in EnumNames) =>
            /\ wire.t = "num"
            /\ wire.n \in 0..255
            /\ wire.n = EnumTable[ty].discriminant[entity]
    /\ \A name \in EnumNames : \A v \in DOMAIN EnumTable[name].discriminant :
            EnumTable[name].discriminant[v] \in 0..255

\* 257 was refused as a DiagnosticSeverity
C15_Witness ==
    /\ pc = "decoded"
    /\ ty = "DiagnosticSeverity"
    /\ wire = Num(257)
    /\ ~result.ok

====
